---- MODULE Spec2Model ----
(***************************************************************************)
(* Worksheet XML writer of bunspout (src/xml/writer.ts, kept here as       *)
(* src/unnamed/part_000): columnIndexToLetter, serializeCell,              *)
(* serializeRow, generateColsXml and the async generator writeSheetXml.    *)
(* XML text is modelled by TLA+ strings, built by concatenation exactly as *)
(* the template literals of the source build it.                           *)
(***************************************************************************)
EXTENDS Integers, Sequences, FiniteSets, TLC

(* ------------------------------------------------------------------ *)
(* Bounds                                                               *)
(* ------------------------------------------------------------------ *)
MaxRows == 3
MaxCols == 5
MaxColIndex == 704
MaxRowIndex == 2
MaxDefs == 2
MaxObservedColumn == 3

(* ------------------------------------------------------------------ *)
(* Optional values: undefined is the empty tuple, a value v is <<v>>    *)
(* ------------------------------------------------------------------ *)
Undefined == <<>>
Some(v) == <<v>>
IsDefined(o) == o # <<>>
ValueOf(o) == o[1]

(* ------------------------------------------------------------------ *)
(* Cells and rows (src/src/types.ts)                                    *)
(* ------------------------------------------------------------------ *)
StringValues == {"Name", "a<b"}
NumberValues == {42}

StringCell(s) == [kind |-> "string", s |-> s]
NumberCell(n) == [kind |-> "number", n |-> n]
BooleanCell(b) == [kind |-> "boolean", b |-> b]
DateCell(d) == [kind |-> "date", serial |-> d]
NullCell == [kind |-> "null"]

Cell ==
  {StringCell(s) : s \in StringValues} \cup {NumberCell(n) : n \in NumberValues}
    \cup {BooleanCell(TRUE), DateCell(45000), NullCell}

HoleUndefined == [kind |-> "undefined"]
HoleNull == [kind |-> "nullslot"]
Holes == {HoleUndefined, HoleNull}

Row(cells, rowIndex) == [cells |-> cells, rowIndex |-> rowIndex]

(* c !== undefined && c !== null *)
IsPresent(c) == c \notin Holes

(* ------------------------------------------------------------------ *)
(* Collaborators that the writer imports                                *)
(* ------------------------------------------------------------------ *)
CellResolved(t, v) == [t |-> t, v |-> v]

resolveCell(cell) ==
  CASE cell.kind = "string" -> CellResolved("s", cell.s)
    [] cell.kind = "number" -> CellResolved("n", ToString(cell.n))
    [] cell.kind = "boolean" -> CellResolved("b", IF cell.b THEN "1" ELSE "0")
    [] cell.kind = "date" -> CellResolved("d", ToString(cell.serial))
    [] OTHER -> CellResolved("s", "")

EscapeChar(c) ==
  CASE c = "&" -> "&amp;"
    [] c = "<" -> "&lt;"
    [] c = ">" -> "&gt;"
    [] c = "\"" -> "&quot;"
    [] c = "'" -> "&apos;"
    [] OTHER -> c

RECURSIVE escapeXml(_)
escapeXml(str) ==
  IF Len(str) = 0 THEN ""
  ELSE EscapeChar(SubSeq(str, 1, 1)) \o escapeXml(SubSeq(str, 2, Len(str)))

(* ColumnWidthTracker: enabled flag and the column -> width map *)
ColumnWidthTracker(enabled) == [enabled |-> enabled, widths |-> <<>>]

CellDisplayWidth(cell) == Len(resolveCell(cell).v)

MapSet(m, k, v) == [x \in (DOMAIN m) \cup {k} |-> IF x = k THEN v ELSE m[x]]

updateColumnWidth(tracker, colIndex, cell) ==
  IF ~tracker.enabled THEN tracker
  ELSE LET w == CellDisplayWidth(cell)
           key == colIndex + 1
       IN IF key \in DOMAIN tracker.widths /\ tracker.widths[key] >= w
          THEN tracker
          ELSE [tracker EXCEPT !.widths = MapSet(tracker.widths, key, w)]

(* the map is keyed by 0-based column index; stored under key colIndex+1 *)
getAllWidths(tracker) == tracker.widths
TrackedHas(trackedWidths, colIndex) == (colIndex + 1) \in DOMAIN trackedWidths
TrackedGet(trackedWidths, colIndex) ==
  IF TrackedHas(trackedWidths, colIndex) THEN Some(trackedWidths[colIndex + 1]) ELSE Undefined

(* ------------------------------------------------------------------ *)
(* columnIndexToLetter                                                  *)
(* ------------------------------------------------------------------ *)
(* String.fromCharCode over the codes 64..91 ("@", "A".."Z", "[") *)
CharTable == "@ABCDEFGHIJKLMNOPQRSTUVWXYZ["

fromCharCode(code) == SubSeq(CharTable, code - 63, code - 63)

RECURSIVE LetterLoop(_, _)
LetterLoopNoDecrement(colIndex, result) ==
  IF colIndex > 0
  THEN LetterLoop(colIndex \div 26, fromCharCode(65 + (colIndex % 26)) \o result)
  ELSE result

LetterLoop(colIndex, result) ==
  IF colIndex > 0
  THEN LET c == colIndex - 1
       IN LetterLoop(c \div 26, fromCharCode(65 + (c % 26)) \o result)
  ELSE result

columnIndexToLetter(colIndex) == LetterLoop(colIndex + 1, "")

getCellReference(rowIndex, colIndex) == columnIndexToLetter(colIndex) \o ToString(rowIndex)

(* ------------------------------------------------------------------ *)
(* serializeCell                                                        *)
(* ------------------------------------------------------------------ *)
(* the caller's resolver is an optional function from string to index *)
CallResolver(getStringIndex, str) == ValueOf(getStringIndex)[str]

serializeCellAlwaysInline(cell, rowIndex, colIndex, getStringIndex) ==
  LET resolved == resolveCell(cell)
      cellRef == getCellReference(rowIndex, colIndex)
      styleAttr == " s=\"0\""
      refAttr == " r=\"" \o cellRef \o "\""
  IN IF resolved.t = "s"
     THEN "<c" \o refAttr \o styleAttr \o " t=\"inlineStr\"><is><t>"
            \o escapeXml(resolved.v) \o "</t></is></c>"
     ELSE LET typeAttr == IF resolved.t # "n" THEN " t=\"" \o resolved.t \o "\"" ELSE ""
              value == resolved.v
          IN "<c" \o refAttr \o styleAttr \o typeAttr \o "><v>" \o value \o "</v></c>"

serializeCell(cell, rowIndex, colIndex, getStringIndex) ==
  LET resolved == resolveCell(cell)
      cellRef == getCellReference(rowIndex, colIndex)
      styleAttr == " s=\"0\""
      refAttr == " r=\"" \o cellRef \o "\""
  IN IF resolved.t = "s" /\ IsDefined(getStringIndex)
     THEN LET index == CallResolver(getStringIndex, resolved.v)
          IN "<c" \o refAttr \o styleAttr \o " t=\"s\"><v>" \o ToString(index) \o "</v></c>"
     ELSE IF resolved.t = "s" /\ ~IsDefined(getStringIndex)
     THEN LET text == escapeXml(resolved.v)
          IN "<c" \o refAttr \o styleAttr \o " t=\"inlineStr\"><is><t>" \o text \o "</t></is></c>"
     ELSE LET typeAttr == IF resolved.t # "n" THEN " t=\"" \o resolved.t \o "\"" ELSE ""
              value == resolved.v
          IN "<c" \o refAttr \o styleAttr \o typeAttr \o "><v>" \o value \o "</v></c>"

(* ------------------------------------------------------------------ *)
(* serializeRow                                                         *)
(* ------------------------------------------------------------------ *)
(* row.cells[i] for a 0-based i *)
CellAt(cells, i) == cells[i + 1]

RECURSIVE FindIndexFrom(_, _)
FindIndexFrom(cells, i) ==
  IF i >= Len(cells) THEN -1
  ELSE IF IsPresent(CellAt(cells, i)) THEN i
  ELSE FindIndexFrom(cells, i + 1)

(* row.cells.findIndex((c) => c !== undefined && c !== null) *)
firstColIndex(cells) == FindIndexFrom(cells, 0)

firstCol(cells) == IF firstColIndex(cells) >= 0 THEN firstColIndex(cells) + 1 ELSE 1

RECURSIVE LastColLoop(_, _, _)
LastColLoop(cells, i, last) ==
  IF i < 0 THEN last
  ELSE IF IsPresent(CellAt(cells, i)) THEN i + 1
  ELSE LastColLoop(cells, i - 1, last)

lastColUsesLength(cells) == IF Len(cells) > 0 THEN Len(cells) ELSE firstCol(cells)

lastCol(cells) == LastColLoop(cells, Len(cells) - 1, firstCol(cells))

RowIndexOf(row) == IF IsDefined(row.rowIndex) THEN ValueOf(row.rowIndex) ELSE 1

RECURSIVE CellsXmlFrom(_, _, _, _)
CellsXmlFromOneBased(cells, colIndex, rowIndex, getStringIndex) ==
  IF colIndex >= Len(cells) THEN ""
  ELSE (IF ~IsPresent(CellAt(cells, colIndex)) THEN ""
        ELSE serializeCell(CellAt(cells, colIndex), rowIndex, colIndex + 1, getStringIndex))
       \o CellsXmlFrom(cells, colIndex + 1, rowIndex, getStringIndex)

CellsXmlFrom(cells, colIndex, rowIndex, getStringIndex) ==
  IF colIndex >= Len(cells) THEN ""
  ELSE (IF ~IsPresent(CellAt(cells, colIndex)) THEN ""
        ELSE serializeCell(CellAt(cells, colIndex), rowIndex, colIndex, getStringIndex))
       \o CellsXmlFrom(cells, colIndex + 1, rowIndex, getStringIndex)

serializeRow(row, getStringIndex) ==
  LET rowIndex == RowIndexOf(row)
      rowIndexAttr == " r=\"" \o ToString(rowIndex) \o "\""
      spansAttr == " spans=\"" \o ToString(firstCol(row.cells)) \o ":"
                     \o ToString(lastCol(row.cells)) \o "\""
      cellsXml == CellsXmlFrom(row.cells, 0, rowIndex, getStringIndex)
  IN "<row" \o rowIndexAttr \o spansAttr \o ">" \o cellsXml \o "</row>"

(* the widthTracker.updateColumnWidth calls of a row, in column order *)
RECURSIVE TrackCellsFrom(_, _, _)
TrackCellsFrom(tracker, cells, colIndex) ==
  IF colIndex >= Len(cells) THEN tracker
  ELSE TrackCellsFrom(
         IF IsPresent(CellAt(cells, colIndex))
         THEN updateColumnWidth(tracker, colIndex, CellAt(cells, colIndex))
         ELSE tracker,
         cells, colIndex + 1)

serializeRowTracker(row, tracker) == TrackCellsFrom(tracker, row.cells, 0)

(* ------------------------------------------------------------------ *)
(* generateColsXml                                                      *)
(* ------------------------------------------------------------------ *)
(* ColumnWidthDefinition: optional columnIndex, optional columnRange,  *)
(* optional width, autoDetect flag (absent = FALSE)                     *)
ColumnDef(columnIndex, width, autoDetect) ==
  [columnIndex |-> Some(columnIndex), columnRange |-> Undefined,
   width |-> width, autoDetect |-> autoDetect]
RangeDef(from, to, width, autoDetect) ==
  [columnIndex |-> Undefined, columnRange |-> Some([from |-> from, to |-> to]),
   width |-> width, autoDetect |-> autoDetect]

(* one pushed <col> element: min, max (1-based) and width *)
ColElement(min, max, width) == [min |-> min, max |-> max, width |-> width]

ColsState(colElements, processedColumns) ==
  [colElements |-> colElements, processedColumns |-> processedColumns]

Max2(a, b) == IF a >= b THEN a ELSE b
Min2(a, b) == IF a <= b THEN a ELSE b

(* lines 168-176: the per-column loop of an auto-detect range *)
RECURSIVE RangeAutoLoop(_, _, _, _)
RangeAutoLoopIgnoresProcessed(st, i, max, trackedWidths) ==
  IF i > max THEN st
  ELSE RangeAutoLoop(
         IF TrackedHas(trackedWidths, i)
         THEN ColsState(Append(st.colElements,
                               ColElement(i + 1, i + 1, ValueOf(TrackedGet(trackedWidths, i)))),
                        st.processedColumns \cup {i})
         ELSE st,
         i + 1, max, trackedWidths)

RangeAutoLoop(st, i, max, trackedWidths) ==
  IF i > max THEN st
  ELSE RangeAutoLoop(
         IF i \notin st.processedColumns /\ TrackedHas(trackedWidths, i)
         THEN ColsState(Append(st.colElements,
                               ColElement(i + 1, i + 1, ValueOf(TrackedGet(trackedWidths, i)))),
                        st.processedColumns \cup {i})
         ELSE st,
         i + 1, max, trackedWidths)

ApplyDefinitionAutoDetectFirst(st, def, maxColumnIndex, trackedWidths) ==
  IF IsDefined(def.columnIndex)
  THEN LET colIndex == ValueOf(def.columnIndex)
       IN IF colIndex <= maxColumnIndex /\ colIndex \notin st.processedColumns
          THEN LET width == IF def.autoDetect /\ TrackedHas(trackedWidths, colIndex)
                            THEN TrackedGet(trackedWidths, colIndex)
                            ELSE def.width
               IN IF IsDefined(width)
                  THEN ColsState(Append(st.colElements,
                                        ColElement(colIndex + 1, colIndex + 1, ValueOf(width))),
                                 st.processedColumns \cup {colIndex})
                  ELSE st
          ELSE st
  ELSE IF IsDefined(def.columnRange)
  THEN LET from == ValueOf(def.columnRange).from
           to == ValueOf(def.columnRange).to
           min == Max2(0, from)
           max == Min2(maxColumnIndex, to)
       IN IF min <= max
          THEN IF def.autoDetect
               THEN RangeAutoLoop(st, min, max, trackedWidths)
               ELSE IF IsDefined(def.width)
               THEN ColsState(Append(st.colElements,
                                     ColElement(min + 1, max + 1, ValueOf(def.width))),
                              st.processedColumns \cup (min..max))
               ELSE st
          ELSE st
  ELSE st

(* lines 152-187: the body of the loop over the definitions *)
ApplyDefinition(st, def, maxColumnIndex, trackedWidths) ==
  IF IsDefined(def.columnIndex)
  THEN LET colIndex == ValueOf(def.columnIndex)
       IN IF colIndex <= maxColumnIndex /\ colIndex \notin st.processedColumns
          THEN LET width == IF IsDefined(def.width) THEN def.width
                            ELSE IF def.autoDetect THEN TrackedGet(trackedWidths, colIndex)
                            ELSE Undefined
               IN IF IsDefined(width)
                  THEN ColsState(Append(st.colElements,
                                        ColElement(colIndex + 1, colIndex + 1, ValueOf(width))),
                                 st.processedColumns \cup {colIndex})
                  ELSE st
          ELSE st
  ELSE IF IsDefined(def.columnRange)
  THEN LET from == ValueOf(def.columnRange).from
           to == ValueOf(def.columnRange).to
           min == Max2(0, from)
           max == Min2(maxColumnIndex, to)
       IN IF min <= max
          THEN IF def.autoDetect
               THEN RangeAutoLoop(st, min, max, trackedWidths)
               ELSE IF IsDefined(def.width)
               THEN ColsState(Append(st.colElements,
                                     ColElement(min + 1, max + 1, ValueOf(def.width))),
                              st.processedColumns \cup (min..max))
               ELSE st
          ELSE st
  ELSE st

RECURSIVE DefinitionsLoop(_, _, _, _, _)
DefinitionsLoop(st, columnWidths, k, maxColumnIndex, trackedWidths) ==
  IF k > Len(columnWidths) THEN st
  ELSE DefinitionsLoop(ApplyDefinition(st, columnWidths[k], maxColumnIndex, trackedWidths),
                       columnWidths, k + 1, maxColumnIndex, trackedWidths)

(* lines 192-203: tracked width, else default width, for the uncovered columns *)
RECURSIVE FallbackLoop(_, _, _, _, _)
FallbackLoopDefaultFirst(st, colIndex, maxColumnIndex, defaultWidth, trackedWidths) ==
  IF colIndex > maxColumnIndex THEN st
  ELSE FallbackLoop(
         IF colIndex \notin st.processedColumns
         THEN IF IsDefined(defaultWidth)
              THEN ColsState(Append(st.colElements,
                                    ColElement(colIndex + 1, colIndex + 1, ValueOf(defaultWidth))),
                             st.processedColumns \cup {colIndex})
              ELSE IF TrackedHas(trackedWidths, colIndex)
              THEN ColsState(Append(st.colElements,
                                    ColElement(colIndex + 1, colIndex + 1,
                                               ValueOf(TrackedGet(trackedWidths, colIndex)))),
                             st.processedColumns \cup {colIndex})
              ELSE st
         ELSE st,
         colIndex + 1, maxColumnIndex, defaultWidth, trackedWidths)

FallbackLoop(st, colIndex, maxColumnIndex, defaultWidth, trackedWidths) ==
  IF colIndex > maxColumnIndex THEN st
  ELSE FallbackLoop(
         IF colIndex \notin st.processedColumns
         THEN IF TrackedHas(trackedWidths, colIndex)
              THEN ColsState(Append(st.colElements,
                                    ColElement(colIndex + 1, colIndex + 1,
                                               ValueOf(TrackedGet(trackedWidths, colIndex)))),
                             st.processedColumns \cup {colIndex})
              ELSE IF IsDefined(defaultWidth)
              THEN ColsState(Append(st.colElements,
                                    ColElement(colIndex + 1, colIndex + 1, ValueOf(defaultWidth))),
                             st.processedColumns \cup {colIndex})
              ELSE st
         ELSE st,
         colIndex + 1, maxColumnIndex, defaultWidth, trackedWidths)

(* the colElements array of generateColsXml when it reaches line 210 *)
colElements(maxColumnIndex, defaultWidth, columnWidths, trackedWidths) ==
  IF maxColumnIndex < 0 THEN <<>>
  ELSE LET afterDefs == DefinitionsLoop(ColsState(<<>>, {}), columnWidths, 1,
                                        maxColumnIndex, trackedWidths)
           afterFallback == FallbackLoop(afterDefs, 0, maxColumnIndex, defaultWidth,
                                         trackedWidths)
       IN IF Len(afterFallback.colElements) = 0 /\ IsDefined(defaultWidth)
          THEN <<ColElement(1, maxColumnIndex + 1, ValueOf(defaultWidth))>>
          ELSE afterFallback.colElements

ColElementXml(e) ==
  "    <col min=\"" \o ToString(e.min) \o "\" max=\"" \o ToString(e.max)
    \o "\" width=\"" \o ToString(e.width) \o "\" customWidth=\"1\"/>"

RECURSIVE JoinLines(_)
JoinLines(els) ==
  IF Len(els) = 0 THEN ""
  ELSE IF Len(els) = 1 THEN ColElementXml(els[1])
  ELSE ColElementXml(els[1]) \o "\n" \o JoinLines(Tail(els))

generateColsXml(maxColumnIndex, defaultWidth, columnWidths, trackedWidths) ==
  LET els == colElements(maxColumnIndex, defaultWidth, columnWidths, trackedWidths)
  IN IF Len(els) = 0 THEN ""
     ELSE "<cols>\n" \o JoinLines(els) \o "\n  </cols>"

generateSheetFormatPr(defaultWidth) ==
  IF ~IsDefined(defaultWidth) THEN ""
  ELSE "    <sheetFormatPr defaultColWidth=\"" \o ToString(ValueOf(defaultWidth)) \o "\"/>"

(* ------------------------------------------------------------------ *)
(* writeSheetXml: the async generator as a state machine                *)
(* ------------------------------------------------------------------ *)
VARIABLES
  rows,            \* the row source: the rows it will deliver, in order
  options,         \* getStringIndex, autoDetectColumnWidth, columnWidths, defaultColumnWidth
  pc,              \* where the generator is suspended
  pulled,          \* rows delivered by the source so far
  drained,         \* the source has reported that it is exhausted
  out,             \* the fragments yielded so far
  row,             \* loop variable of the fast path's for-await
  needsColsXml,    \* local const of line 253, Undefined until computed
  widthTracker,    \* local const of line 261, Undefined until constructed
  allRows,         \* slow path buffer
  maxColumnIndex,  \* slow path running maximum
  colsXml,         \* local const of line 305, Undefined until computed
  nextRow,         \* position of the slow path's for-of over allRows
  resolverCalls,   \* arguments of the getStringIndex calls made so far
  call,            \* pending call of a pure function (function specifications)
  ret              \* its result

vars == <<rows, options, pc, pulled, drained, out, row, needsColsXml, widthTracker,
          allRows, maxColumnIndex, colsXml, nextRow, resolverCalls, call, ret>>

Prolog == "<?xml version=\"1.0\" encoding=\"UTF-8\" standalone=\"yes\"?>\n<worksheet xmlns=\"http://schemas.openxmlformats.org/spreadsheetml/2006/main\">"
SheetDataOpen == "<sheetData>"
Closing == "</sheetData></worksheet>"

(* the caller's inputs *)
ResolverDomain == StringValues \cup {""}
ResolverA == [s \in ResolverDomain |-> CASE s = "Name" -> 0 [] s = "a<b" -> 1 [] OTHER -> 2]
ResolverB == [s \in ResolverDomain |-> CASE s = "Name" -> 7 [] s = "a<b" -> 5 [] OTHER -> 6]

WriterRows ==
  { Row(<<StringCell("Name"), NumberCell(42)>>, Some(1)),
    Row(<<HoleUndefined, StringCell("a<b"), HoleNull>>, Some(2)),
    Row(<<>>, Undefined),
    Row(<<BooleanCell(TRUE)>>, Undefined),
    Row(<<NumberCell(42), HoleNull, NullCell, DateCell(45000)>>, Some(3)) }

WriterColumnWidths ==
  { <<>>,
    <<ColumnDef(0, Some(20), FALSE)>>,
    <<ColumnDef(9, Some(20), FALSE)>>,
    <<RangeDef(0, 3, Undefined, TRUE)>>,
    <<ColumnDef(2, Some(30), FALSE), RangeDef(0, 3, Undefined, TRUE)>>,
    <<RangeDef(1, 2, Some(15), FALSE)>> }

WriterOptions ==
  [getStringIndex : {Undefined, Some(ResolverA)},
   autoDetectColumnWidth : BOOLEAN,
   columnWidths : WriterColumnWidths,
   defaultColumnWidth : {Undefined, Some(10)}]

RowSequences(pool, n) == UNION {[1..k -> pool] : k \in 0..n}

(* lines 253-260 *)
RECURSIVE SomeAutoDetect(_)
SomeAutoDetect(columnWidths) ==
  IF Len(columnWidths) = 0 THEN FALSE
  ELSE Head(columnWidths).autoDetect \/ SomeAutoDetect(Tail(columnWidths))

NeedsColsXmlWithDefault(opts) ==
  Len(opts.columnWidths) > 0 \/ opts.autoDetectColumnWidth = TRUE
    \/ IsDefined(opts.defaultColumnWidth)

NeedsColsXml(opts) ==
  Len(opts.columnWidths) > 0 \/ opts.autoDetectColumnWidth = TRUE

hasPerColumnAutoDetect(opts) == SomeAutoDetect(opts.columnWidths)
needsWidthTracking(opts) == opts.autoDetectColumnWidth \/ hasPerColumnAutoDetect(opts)

(* the locals of lines 248-261, which the first resumption after the prolog sets *)
NeedsColsXmlNow ==
  IF pc = "decide" THEN NeedsColsXml(options) ELSE ValueOf(needsColsXml)
WidthTrackerNow ==
  IF pc = "decide" THEN ColumnWidthTracker(needsWidthTracking(options))
  ELSE ValueOf(widthTracker)

(* the getStringIndex calls that serializing one row makes, in order *)
RECURSIVE ResolverCallsFrom(_, _, _)
ResolverCallsFromEveryCell(cells, colIndex, getStringIndex) ==
  IF colIndex >= Len(cells) THEN <<>>
  ELSE (IF IsPresent(CellAt(cells, colIndex)) /\ IsDefined(getStringIndex)
        THEN <<resolveCell(CellAt(cells, colIndex)).v>>
        ELSE <<>>)
       \o ResolverCallsFrom(cells, colIndex + 1, getStringIndex)

ResolverCallsFrom(cells, colIndex, getStringIndex) ==
  IF colIndex >= Len(cells) THEN <<>>
  ELSE (IF IsPresent(CellAt(cells, colIndex))
           /\ resolveCell(CellAt(cells, colIndex)).t = "s" /\ IsDefined(getStringIndex)
        THEN <<resolveCell(CellAt(cells, colIndex)).v>>
        ELSE <<>>)
       \o ResolverCallsFrom(cells, colIndex + 1, getStringIndex)

serializeRowCalls(r, getStringIndex) == ResolverCallsFrom(r.cells, 0, getStringIndex)

Init ==
  /\ rows \in RowSequences(WriterRows, MaxRows)
  /\ options \in WriterOptions
  /\ pc = "start"
  /\ pulled = 0
  /\ drained = FALSE
  /\ out = <<>>
  /\ row = Undefined
  /\ needsColsXml = Undefined
  /\ widthTracker = Undefined
  /\ allRows = <<>>
  /\ maxColumnIndex = -1
  /\ colsXml = Undefined
  /\ nextRow = 0
  /\ resolverCalls = <<>>
  /\ call = Undefined
  /\ ret = Undefined

(* line 246 *)
YieldProlog ==
  /\ pc = "start"
  /\ out' = Append(out, Prolog)
  /\ pc' = "decide"
  /\ UNCHANGED <<rows, options, pulled, drained, row, needsColsXml, widthTracker, allRows,
                 maxColumnIndex, colsXml, nextRow, resolverCalls, call, ret>>

(* ---------------- fast path, lines 265-278 ---------------- *)
FastYieldSheetFormatPr ==
  /\ pc = "decide"
  /\ ~NeedsColsXmlNow
  /\ IsDefined(options.defaultColumnWidth)
  /\ out' = Append(out, generateSheetFormatPr(options.defaultColumnWidth))
  /\ needsColsXml' = Some(NeedsColsXmlNow)
  /\ widthTracker' = Some(WidthTrackerNow)
  /\ pc' = "fast_sheetData"
  /\ UNCHANGED <<rows, options, pulled, drained, row, allRows, maxColumnIndex, colsXml,
                 nextRow, resolverCalls, call, ret>>

FastYieldSheetData ==
  /\ \/ pc = "decide" /\ ~NeedsColsXmlNow /\ ~IsDefined(options.defaultColumnWidth)
     \/ pc = "fast_sheetData"
  /\ out' = Append(out, SheetDataOpen)
  /\ needsColsXml' = Some(NeedsColsXmlNow)
  /\ widthTracker' = Some(WidthTrackerNow)
  /\ pc' = "fast_loop"
  /\ UNCHANGED <<rows, options, pulled, drained, row, allRows, maxColumnIndex, colsXml,
                 nextRow, resolverCalls, call, ret>>

FastPullRowBuffering ==
  /\ pc = "fast_loop"
  /\ pulled < Len(rows)
  /\ row' = Some(rows[pulled + 1])
  /\ allRows' = Append(allRows, rows[pulled + 1])
  /\ pulled' = pulled + 1
  /\ pc' = "fast_row"
  /\ UNCHANGED <<rows, options, drained, out, needsColsXml, widthTracker,
                 maxColumnIndex, colsXml, nextRow, resolverCalls, call, ret>>

(* for await (const row of rows): the source delivers its next row *)
FastPullRow ==
  /\ pc = "fast_loop"
  /\ pulled < Len(rows)
  /\ row' = Some(rows[pulled + 1])
  /\ pulled' = pulled + 1
  /\ pc' = "fast_row"
  /\ UNCHANGED <<rows, options, drained, out, needsColsXml, widthTracker, allRows,
                 maxColumnIndex, colsXml, nextRow, resolverCalls, call, ret>>

(* line 273 *)
FastYieldRow ==
  /\ pc = "fast_row"
  /\ out' = Append(out, serializeRow(ValueOf(row), options.getStringIndex))
  /\ resolverCalls' = resolverCalls \o serializeRowCalls(ValueOf(row), options.getStringIndex)
  /\ widthTracker' = Some(serializeRowTracker(ValueOf(row), ValueOf(widthTracker)))
  /\ pc' = "fast_loop"
  /\ UNCHANGED <<rows, options, pulled, drained, row, needsColsXml, allRows,
                 maxColumnIndex, colsXml, nextRow, call, ret>>

FastCloseEarly ==
  /\ pc = "fast_loop"
  /\ drained' = (pulled = Len(rows))
  /\ row' = Undefined
  /\ out' = Append(out, Closing)
  /\ pc' = "done"
  /\ UNCHANGED <<rows, options, pulled, needsColsXml, widthTracker, allRows,
                 maxColumnIndex, colsXml, nextRow, resolverCalls, call, ret>>

(* the source is exhausted: lines 276-277 *)
FastClose ==
  /\ pc = "fast_loop"
  /\ pulled = Len(rows)
  /\ drained' = TRUE
  /\ row' = Undefined
  /\ out' = Append(out, Closing)
  /\ pc' = "done"
  /\ UNCHANGED <<rows, options, pulled, needsColsXml, widthTracker, allRows,
                 maxColumnIndex, colsXml, nextRow, resolverCalls, call, ret>>

(* ---------------- slow path, lines 285-329 ---------------- *)
(* lines 288-299: one iteration of the buffering for-await *)
SlowPullRowNoBuffer ==
  /\ pc \in {"decide", "slow_loop"}
  /\ NeedsColsXmlNow
  /\ pulled < Len(rows)
  /\ LET r == rows[pulled + 1]
     IN /\ allRows' = IF pulled = 0 THEN Append(allRows, r) ELSE allRows
        /\ maxColumnIndex' = Max2(maxColumnIndex, Len(r.cells) - 1)
        /\ widthTracker' = Some(WidthTrackerNow)
  /\ pulled' = pulled + 1
  /\ needsColsXml' = Some(NeedsColsXmlNow)
  /\ pc' = "slow_loop"
  /\ UNCHANGED <<rows, options, drained, out, row, colsXml, nextRow, resolverCalls,
                 call, ret>>

SlowPullRow ==
  /\ pc \in {"decide", "slow_loop"}
  /\ NeedsColsXmlNow
  /\ pulled < Len(rows)
  /\ LET r == rows[pulled + 1]
     IN /\ allRows' = Append(allRows, r)
        /\ maxColumnIndex' = Max2(maxColumnIndex, Len(r.cells) - 1)
        /\ widthTracker' =
             Some(IF needsWidthTracking(options)
                  THEN TrackCellsFrom(WidthTrackerNow, r.cells, 0)
                  ELSE WidthTrackerNow)
  /\ pulled' = pulled + 1
  /\ needsColsXml' = Some(NeedsColsXmlNow)
  /\ pc' = "slow_loop"
  /\ UNCHANGED <<rows, options, drained, out, row, colsXml, nextRow, resolverCalls,
                 call, ret>>

(* the source reports exhaustion to the buffering loop *)
AtDrain == pc \in {"decide", "slow_loop"} /\ NeedsColsXmlNow /\ pulled = Len(rows)

(* lines 302-312, evaluated when the buffering loop ends *)
sheetFormatPr == generateSheetFormatPr(options.defaultColumnWidth)
ColsXmlNow ==
  IF AtDrain
  THEN IF NeedsColsXmlNow
       THEN generateColsXml(maxColumnIndex, options.defaultColumnWidth, options.columnWidths,
                            getAllWidths(WidthTrackerNow))
       ELSE ""
  ELSE ValueOf(colsXml)

SlowLocals ==
  /\ needsColsXml' = Some(NeedsColsXmlNow)
  /\ widthTracker' = Some(WidthTrackerNow)
  /\ colsXml' = Some(ColsXmlNow)
  /\ drained' = TRUE

(* lines 315-317 *)
SlowYieldSheetFormatPrEarly ==
  /\ pc \in {"decide", "slow_loop"} /\ NeedsColsXmlNow
  /\ sheetFormatPr # ""
  /\ out' = Append(out, sheetFormatPr)
  /\ needsColsXml' = Some(NeedsColsXmlNow)
  /\ widthTracker' = Some(WidthTrackerNow)
  /\ colsXml' = Some("")
  /\ drained' = (pulled = Len(rows))
  /\ pc' = "slow_cols"
  /\ UNCHANGED <<rows, options, pulled, row, allRows, maxColumnIndex, nextRow,
                 resolverCalls, call, ret>>

SlowYieldSheetFormatPr ==
  /\ AtDrain
  /\ sheetFormatPr # ""
  /\ out' = Append(out, sheetFormatPr)
  /\ SlowLocals
  /\ pc' = "slow_cols"
  /\ UNCHANGED <<rows, options, pulled, row, allRows, maxColumnIndex, nextRow,
                 resolverCalls, call, ret>>

(* lines 318-320 *)
SlowYieldCols ==
  /\ \/ AtDrain /\ sheetFormatPr = ""
     \/ pc = "slow_cols"
  /\ ColsXmlNow # ""
  /\ out' = Append(out, ColsXmlNow)
  /\ SlowLocals
  /\ pc' = "slow_sheetData"
  /\ UNCHANGED <<rows, options, pulled, row, allRows, maxColumnIndex, nextRow,
                 resolverCalls, call, ret>>

(* line 322 *)
SlowYieldSheetData ==
  /\ \/ AtDrain /\ sheetFormatPr = "" /\ ColsXmlNow = ""
     \/ pc = "slow_cols" /\ ColsXmlNow = ""
     \/ pc = "slow_sheetData"
  /\ out' = Append(out, SheetDataOpen)
  /\ SlowLocals
  /\ pc' = "slow_rows"
  /\ UNCHANGED <<rows, options, pulled, row, allRows, maxColumnIndex, nextRow,
                 resolverCalls, call, ret>>

(* lines 325-327: one iteration of the for-of over the buffer *)
SlowYieldRowReversed ==
  /\ pc = "slow_rows"
  /\ nextRow < Len(allRows)
  /\ LET r == allRows[Len(allRows) - nextRow]
     IN /\ out' = Append(out, serializeRow(r, options.getStringIndex))
        /\ resolverCalls' = resolverCalls \o serializeRowCalls(r, options.getStringIndex)
        /\ widthTracker' = Some(serializeRowTracker(r, ValueOf(widthTracker)))
  /\ nextRow' = nextRow + 1
  /\ UNCHANGED <<rows, options, pc, pulled, drained, row, needsColsXml, allRows,
                 maxColumnIndex, colsXml, call, ret>>

SlowYieldRowInline ==
  /\ pc = "slow_rows"
  /\ nextRow < Len(allRows)
  /\ LET r == allRows[nextRow + 1]
     IN /\ out' = Append(out, serializeRow(r, Undefined))
        /\ resolverCalls' = resolverCalls
        /\ widthTracker' = Some(serializeRowTracker(r, ValueOf(widthTracker)))
  /\ nextRow' = nextRow + 1
  /\ UNCHANGED <<rows, options, pc, pulled, drained, row, needsColsXml, allRows,
                 maxColumnIndex, colsXml, call, ret>>

SlowYieldRow ==
  /\ pc = "slow_rows"
  /\ nextRow < Len(allRows)
  /\ LET r == allRows[nextRow + 1]
     IN /\ out' = Append(out, serializeRow(r, options.getStringIndex))
        /\ resolverCalls' = resolverCalls \o serializeRowCalls(r, options.getStringIndex)
        /\ widthTracker' = Some(serializeRowTracker(r, ValueOf(widthTracker)))
  /\ nextRow' = nextRow + 1
  /\ UNCHANGED <<rows, options, pc, pulled, drained, row, needsColsXml, allRows,
                 maxColumnIndex, colsXml, call, ret>>

(* line 329 *)
SlowClose ==
  /\ pc = "slow_rows"
  /\ nextRow = Len(allRows)
  /\ out' = Append(out, Closing)
  /\ pc' = "done"
  /\ UNCHANGED <<rows, options, pulled, drained, row, needsColsXml, widthTracker, allRows,
                 maxColumnIndex, colsXml, nextRow, resolverCalls, call, ret>>

Next ==
  \/ YieldProlog
  \/ FastYieldSheetFormatPr
  \/ FastYieldSheetData
  \/ FastPullRow
  \/ FastYieldRow
  \/ FastClose
  \/ SlowPullRow
  \/ SlowYieldSheetFormatPr
  \/ SlowYieldCols
  \/ SlowYieldSheetData
  \/ SlowYieldRow
  \/ SlowClose

Spec == Init /\ [][Next]_vars

TypeOK ==
  /\ pulled \in 0..Len(rows)
  /\ Len(allRows) <= pulled
  /\ nextRow \in 0..Len(allRows)

(* ------------------------------------------------------------------ *)
(* Specifications of the pure functions: Init draws the arguments,      *)
(* the action applies the function                                      *)
(* ------------------------------------------------------------------ *)
WriterIdle ==
  /\ rows = <<>>
  /\ options = [getStringIndex |-> Undefined, autoDetectColumnWidth |-> FALSE,
                columnWidths |-> <<>>, defaultColumnWidth |-> Undefined]
  /\ pc = "idle"
  /\ pulled = 0
  /\ drained = FALSE
  /\ out = <<>>
  /\ row = Undefined
  /\ needsColsXml = Undefined
  /\ widthTracker = Undefined
  /\ allRows = <<>>
  /\ maxColumnIndex = -1
  /\ colsXml = Undefined
  /\ nextRow = 0
  /\ resolverCalls = <<>>

writerVars == <<rows, options, pc, pulled, drained, out, row, needsColsXml, widthTracker,
                allRows, maxColumnIndex, colsXml, nextRow, resolverCalls>>

Resolvers == {Undefined, Some(ResolverA), Some(ResolverB)}

(* columnIndexToLetter *)
InitLetter ==
  /\ WriterIdle
  /\ \E c \in 0..MaxColIndex :
       call = Some([fn |-> "columnIndexToLetter", colIndex |-> c])
  /\ ret = Undefined

CallColumnIndexToLetter ==
  /\ IsDefined(call) /\ ValueOf(call).fn = "columnIndexToLetter"
  /\ ~IsDefined(ret)
  /\ ret' = Some(columnIndexToLetter(ValueOf(call).colIndex))
  /\ UNCHANGED <<writerVars, call>>

NextLetter == CallColumnIndexToLetter
SpecLetter == InitLetter /\ [][NextLetter]_vars

(* serializeCell *)
CellColumns == 0..MaxCols \cup {26}

InitCell ==
  /\ WriterIdle
  /\ \E cell \in Cell, rowIndex \in 1..MaxRowIndex, colIndex \in CellColumns,
        getStringIndex \in Resolvers :
       call = Some([fn |-> "serializeCell", cell |-> cell, rowIndex |-> rowIndex,
                    colIndex |-> colIndex, getStringIndex |-> getStringIndex])
  /\ ret = Undefined

CallSerializeCell ==
  /\ IsDefined(call) /\ ValueOf(call).fn = "serializeCell"
  /\ ~IsDefined(ret)
  /\ LET c == ValueOf(call)
     IN ret' = Some(serializeCell(c.cell, c.rowIndex, c.colIndex, c.getStringIndex))
  /\ UNCHANGED <<writerVars, call>>

NextCell == CallSerializeCell
SpecCell == InitCell /\ [][NextCell]_vars

(* serializeRow *)
RowSlots == {StringCell("a<b"), NumberCell(42), HoleUndefined, HoleNull}
RowCells == UNION {[1..k -> RowSlots] : k \in 0..MaxCols}
RowIndexes == {Undefined} \cup {Some(i) : i \in 1..MaxRowIndex}

InitRow ==
  /\ WriterIdle
  /\ \E cells \in RowCells, rowIndex \in RowIndexes, getStringIndex \in Resolvers,
        enabled \in BOOLEAN :
       call = Some([fn |-> "serializeRow", row |-> Row(cells, rowIndex),
                    getStringIndex |-> getStringIndex,
                    widthTracker |-> ColumnWidthTracker(enabled)])
  /\ ret = Undefined

CallSerializeRow ==
  /\ IsDefined(call) /\ ValueOf(call).fn = "serializeRow"
  /\ ~IsDefined(ret)
  /\ LET c == ValueOf(call)
     IN ret' = Some([xml |-> serializeRow(c.row, c.getStringIndex),
                     widthTracker |-> serializeRowTracker(c.row, c.widthTracker)])
  /\ UNCHANGED <<writerVars, call>>

NextRow == CallSerializeRow
SpecRow == InitRow /\ [][NextRow]_vars

(* generateColsXml *)
ColsDefinitions ==
  {ColumnDef(2, w, a) : w \in {Undefined, Some(30)}, a \in BOOLEAN}
    \cup {ColumnDef(2, Some(40), TRUE)}
    \cup {ColumnDef(i, Some(40), FALSE) : i \in {-1, 0}}
    \cup {ColumnDef(i, Undefined, TRUE) : i \in {-1, 0}}
    \cup {RangeDef(0, 3, w, a) : w \in {Undefined, Some(15)}, a \in BOOLEAN}
    \cup {RangeDef(r[1], r[2], Some(15), FALSE) :
            r \in {<<-1, 1>>, <<2, 1>>, <<MaxObservedColumn + 2, MaxObservedColumn + 3>>}}
    \cup {RangeDef(r[1], r[2], Undefined, TRUE) :
            r \in {<<-1, 1>>, <<2, 1>>, <<MaxObservedColumn + 2, MaxObservedColumn + 3>>}}

(* a widths map of the tracker: the columns of S, column c with width 5 + c *)
TrackedWidthsOn(S) == [x \in {c + 1 : c \in S} |-> 4 + x]

(* processedColumns and colElements after each iteration of the loop of  *)
(* line 151: element k is the state after k - 1 definitions              *)
DefinitionSteps(maxCol, defs, trackedWidths) ==
  IF maxCol < 0 THEN <<>>
  ELSE [k \in 1..(Len(defs) + 1) |->
          DefinitionsLoop(ColsState(<<>>, {}), SubSeq(defs, 1, k - 1), 1,
                          maxCol, trackedWidths)]

InitCols ==
  /\ WriterIdle
  /\ \E maxCol \in -1..MaxObservedColumn, defaultWidth \in {Undefined, Some(10)},
        defs \in RowSequences(ColsDefinitions, MaxDefs) :
       \E S \in SUBSET (0..maxCol) :
         call = Some([fn |-> "generateColsXml", maxColumnIndex |-> maxCol,
                      defaultWidth |-> defaultWidth, columnWidths |-> defs,
                      trackedWidths |-> TrackedWidthsOn(S)])
  /\ ret = Undefined

CallGenerateColsXml ==
  /\ IsDefined(call) /\ ValueOf(call).fn = "generateColsXml"
  /\ ~IsDefined(ret)
  /\ LET c == ValueOf(call)
     IN ret' = Some([xml |-> generateColsXml(c.maxColumnIndex, c.defaultWidth,
                                             c.columnWidths, c.trackedWidths),
                     colElements |-> colElements(c.maxColumnIndex, c.defaultWidth,
                                                 c.columnWidths, c.trackedWidths),
                     steps |-> DefinitionSteps(c.maxColumnIndex, c.columnWidths,
                                               c.trackedWidths)])
  /\ UNCHANGED <<writerVars, call>>

NextCols == CallGenerateColsXml
SpecCols == InitCols /\ [][NextCols]_vars

(* ------------------------------------------------------------------ *)
(* Properties                                                           *)
(* ------------------------------------------------------------------ *)
Contains(str, sub) ==
  \E i \in 1..(Len(str) - Len(sub) + 1) : SubSeq(str, i, i + Len(sub) - 1) = sub
StartsWith(str, pre) == Len(str) >= Len(pre) /\ SubSeq(str, 1, Len(pre)) = pre
IsPrefix(a, b) == Len(a) <= Len(b) /\ \A i \in 1..Len(a) : a[i] = b[i]

RECURSIVE Concat(_)
Concat(fragments) ==
  IF Len(fragments) = 0 THEN "" ELSE Head(fragments) \o Concat(Tail(fragments))

IsRowFragment(f) == StartsWith(f, "<row")
IsColsFragment(f) == StartsWith(f, "<cols>")
RowFragments(fragments) == SelectSeq(fragments, IsRowFragment)

(* the configuration asks for per-column width output *)
WidthFeaturesRequested ==
  Len(options.columnWidths) > 0 \/ options.autoDetectColumnWidth

SerializedRows(rs, getStringIndex) ==
  [k \in 1..Len(rs) |-> serializeRow(rs[k], getStringIndex)]

(* C1: the row fragments yielded so far are the serializations of the      *)
(* first rows of the input, in input order, one per row; when the          *)
(* generator has finished there are exactly as many as input rows.         *)
C1_RowOrderPreserved ==
  pc # "idle" =>
    LET frags == RowFragments(out)
    IN /\ Len(frags) <= pulled
       /\ \A k \in 1..Len(frags) : frags[k] = serializeRow(rows[k], options.getStringIndex)
       /\ (pc = "done" => Len(frags) = Len(rows))

C1_Witness ==
  /\ pc = "done" /\ WidthFeaturesRequested
  /\ Len(rows) >= 3 /\ rows[1] # rows[2] /\ rows[2] # rows[3]
  /\ Len(RowFragments(out)) = Len(rows)

(* C2 as stated: in the slow path no fragment at all, not even the prolog, *)
(* is yielded before the row source is drained.                            *)
C2_NoFragmentBeforeDrain ==
  (pc # "idle" /\ WidthFeaturesRequested) => (Len(out) > 0 => drained)

(* C2 amended: in the slow path the prolog is yielded first, before any    *)
(* row is consumed, and no further fragment is yielded before the row      *)
(* source is drained.                                                      *)
C2_OnlyPrologBeforeDrain ==
  (pc # "idle" /\ WidthFeaturesRequested) =>
    /\ (Len(out) >= 1 => out[1] = Prolog)
    /\ (pulled > 0 \/ drained => Len(out) >= 1)
    /\ (Len(out) >= 2 => drained /\ pulled = Len(rows))
    /\ (~drained => Len(out) <= 1)

C2_Witness ==
  /\ WidthFeaturesRequested /\ Len(rows) >= 2
  /\ drained /\ Len(out) = 2 /\ out[1] = Prolog

(* C3: in the fast path the rows pulled exceed the row fragments yielded   *)
(* by at most one, nothing is buffered, the only row referenced is the one *)
(* pulled last, and the prolog is yielded before the first row is pulled.  *)
C3_FastPathStreams ==
  (pc # "idle" /\ ~WidthFeaturesRequested) =>
    LET yielded == Len(RowFragments(out))
    IN /\ pulled - yielded \in {0, 1}
       /\ allRows = <<>>
       /\ (IsDefined(row) => pulled >= 1 /\ ValueOf(row) = rows[pulled])
       /\ (pulled > yielded => IsDefined(row))
       /\ (pulled > 0 => Len(out) >= 1 /\ out[1] = Prolog)

C3_Witness ==
  /\ ~WidthFeaturesRequested /\ pc = "fast_row"
  /\ pulled = 3 /\ Len(RowFragments(out)) = 2

(* C4: the fast path yields prolog, the default-width declaration iff      *)
(* defaultColumnWidth is configured, <sheetData>, one fragment per row,    *)
(* one closing fragment, and nothing after it.                             *)
FastFragments(rs, getStringIndex, defaultColumnWidth) ==
  <<Prolog>>
    \o (IF IsDefined(defaultColumnWidth)
        THEN <<"    <sheetFormatPr defaultColWidth=\""
                 \o ToString(ValueOf(defaultColumnWidth)) \o "\"/>">>
        ELSE <<>>)
    \o <<SheetDataOpen>>
    \o SerializedRows(rs, getStringIndex)
    \o <<Closing>>

C4_FastFragmentSequence ==
  (pc # "idle" /\ ~WidthFeaturesRequested) =>
    LET expected == FastFragments(rows, options.getStringIndex, options.defaultColumnWidth)
    IN /\ IsPrefix(out, expected)
       /\ (pc = "done" <=> out = expected)

C4_Witness ==
  /\ ~WidthFeaturesRequested /\ pc = "done"
  /\ IsDefined(options.defaultColumnWidth) /\ Len(rows) >= 2
  /\ Len(out) = Len(rows) + 4

(* C5: the slow path yields prolog, the default-width declaration iff      *)
(* defaultColumnWidth is configured, the <cols> block iff it is non-empty, *)
(* <sheetData>, one fragment per buffered row in input order, and the      *)
(* closing fragment; <cols> and the row fragments come only after the      *)
(* source is exhausted, and <cols> comes before <sheetData>.               *)
MaxColumnIndexOf(rs) ==
  LET lasts == {-1} \cup {Len(rs[k].cells) - 1 : k \in 1..Len(rs)}
  IN CHOOSE m \in lasts : \A x \in lasts : x <= m

ObservedWidths(rs) ==
  LET seen(c) == {k \in 1..Len(rs) : c < Len(rs[k].cells) /\ IsPresent(rs[k].cells[c + 1])}
      widthsOf(c) == {CellDisplayWidth(rs[k].cells[c + 1]) : k \in seen(c)}
      cols == {c \in 0..MaxColumnIndexOf(rs) : seen(c) # {}}
  IN [x \in {c + 1 : c \in cols} |->
        CHOOSE w \in widthsOf(x - 1) : \A v \in widthsOf(x - 1) : v <= w]

TrackingRequested ==
  options.autoDetectColumnWidth
    \/ \E k \in 1..Len(options.columnWidths) : options.columnWidths[k].autoDetect

ExpectedColsXml ==
  generateColsXml(MaxColumnIndexOf(rows), options.defaultColumnWidth, options.columnWidths,
                  IF TrackingRequested THEN ObservedWidths(rows) ELSE <<>>)

SlowFragments ==
  <<Prolog>>
    \o (IF IsDefined(options.defaultColumnWidth)
        THEN <<"    <sheetFormatPr defaultColWidth=\""
                 \o ToString(ValueOf(options.defaultColumnWidth)) \o "\"/>">>
        ELSE <<>>)
    \o (IF ExpectedColsXml # "" THEN <<ExpectedColsXml>> ELSE <<>>)
    \o <<SheetDataOpen>>
    \o SerializedRows(rows, options.getStringIndex)
    \o <<Closing>>

C5_SlowFragmentSequence ==
  (pc # "idle" /\ WidthFeaturesRequested) =>
    LET expected == SlowFragments
    IN /\ IsPrefix(out, expected)
       /\ (pc = "done" <=> out = expected)
       /\ \A i \in 1..Len(out) :
            (IsColsFragment(out[i]) \/ IsRowFragment(out[i])) => drained /\ pulled = Len(rows)
       /\ \A i, j \in 1..Len(out) :
            (IsColsFragment(out[i]) /\ out[j] = SheetDataOpen) => i < j

C5_Witness ==
  /\ WidthFeaturesRequested /\ pc = "done"
  /\ IsDefined(options.defaultColumnWidth) /\ Len(rows) >= 2
  /\ IsColsFragment(out[3]) /\ Len(out) = Len(rows) + 5

(* C6: the mode is computed from the configuration alone before any row    *)
(* is read: slow iff columnWidths is non-empty or autoDetectColumnWidth is *)
(* true; every other configuration, also one with only defaultColumnWidth, *)
(* streams on the fast path and never yields a <cols> block.               *)
FastPositions == {"fast_sheetData", "fast_loop", "fast_row"}
SlowPositions == {"slow_loop", "slow_cols", "slow_sheetData", "slow_rows"}

C6_ModeFromConfiguration ==
  pc # "idle" =>
    /\ (IsDefined(needsColsXml) => ValueOf(needsColsXml) = WidthFeaturesRequested)
    /\ (pulled > 0 \/ drained \/ Len(out) >= 2 => IsDefined(needsColsXml))
    /\ (pc \in FastPositions => ~WidthFeaturesRequested)
    /\ (pc \in SlowPositions => WidthFeaturesRequested)
    /\ (~WidthFeaturesRequested =>
          /\ allRows = <<>>
          /\ \A i \in 1..Len(out) : ~IsColsFragment(out[i])
          /\ Len(RowFragments(out)) >= pulled - 1)
    /\ (WidthFeaturesRequested => (RowFragments(out) # <<>> => Len(allRows) = Len(rows)))

C6_Witness ==
  /\ options.columnWidths = <<>> /\ ~options.autoDetectColumnWidth
  /\ IsDefined(options.defaultColumnWidth)
  /\ pc = "fast_loop" /\ pulled = 1 /\ Len(rows) >= 2 /\ rows[1].cells # <<>>
  /\ Len(RowFragments(out)) = 1

(* C7: when the slow path's <cols> block is empty, the fragments it yields *)
(* are those of the fast path for the same rows, resolver and default      *)
(* width, so the concatenated documents are equal.                         *)
C7_SlowEqualsFastWithoutCols ==
  (pc # "idle" /\ WidthFeaturesRequested /\ IsDefined(colsXml) /\ ValueOf(colsXml) = "") =>
    LET fast == FastFragments(rows, options.getStringIndex, options.defaultColumnWidth)
    IN /\ IsPrefix(out, fast)
       /\ (pc = "done" => Concat(out) = Concat(fast))

C7_Witness ==
  /\ pc = "done" /\ WidthFeaturesRequested /\ colsXml = Some("")
  /\ Len(rows) >= 2 /\ maxColumnIndex >= 1
  /\ IsDefined(options.getStringIndex) /\ resolverCalls # <<>>

(* C8: a row with at least one present cell is serialized with             *)
(* spans="a:b", a and b being one more than the lowest and the highest     *)
(* index of a present cell, whatever holes lie before, between or after.   *)
PresentIndexes(cells) == {i \in 0..(Len(cells) - 1) : IsPresent(cells[i + 1])}
Lowest(S) == CHOOSE m \in S : \A x \in S : m <= x
Highest(S) == CHOOSE m \in S : \A x \in S : x <= m

C8_SpansFirstToLastPresent ==
  (IsDefined(call) /\ ValueOf(call).fn = "serializeRow" /\ IsDefined(ret)) =>
    LET r == ValueOf(call).row
        present == PresentIndexes(r.cells)
        rowIndex == IF r.rowIndex = Undefined THEN 1 ELSE r.rowIndex[1]
    IN present # {} =>
         StartsWith(ValueOf(ret).xml,
                    "<row r=\"" \o ToString(rowIndex) \o "\" spans=\""
                      \o ToString(Lowest(present) + 1) \o ":"
                      \o ToString(Highest(present) + 1) \o "\">")

C8_Witness ==
  /\ IsDefined(call) /\ ValueOf(call).fn = "serializeRow" /\ IsDefined(ret)
  /\ PresentIndexes(ValueOf(call).row.cells) = {1, 3}
  /\ Len(ValueOf(call).row.cells) = 5
  /\ Contains(ValueOf(ret).xml, " spans=\"2:4\"")

(* C9: columnIndexToLetter is the bijective base-26 numbering: its result  *)
(* consists of letters A-Z, read as bijective base-26 digits it is the     *)
(* index plus one, no other index of the range has the same result, and    *)
(* 0, 25, 26, 701, 702 give A, Z, AA, ZZ, AAA.                             *)
LetterDigit(ch) == CHOOSE d \in 0..27 : SubSeq(CharTable, d + 1, d + 1) = ch

RECURSIVE BijectiveValue(_)
BijectiveValue(str) ==
  IF Len(str) = 0 THEN 0
  ELSE 26 * BijectiveValue(SubSeq(str, 1, Len(str) - 1))
         + LetterDigit(SubSeq(str, Len(str), Len(str)))

C9_ColumnLetterBijective ==
  (IsDefined(call) /\ ValueOf(call).fn = "columnIndexToLetter" /\ IsDefined(ret)) =>
    LET c == ValueOf(call).colIndex
        letters == ValueOf(ret)
    IN /\ Len(letters) >= 1
       /\ \A i \in 1..Len(letters) : LetterDigit(SubSeq(letters, i, i)) \in 1..26
       /\ BijectiveValue(letters) = c + 1
       /\ \A j \in 0..MaxColIndex : columnIndexToLetter(j) = letters => j = c
       /\ (c = 0 => letters = "A")
       /\ (c = 25 => letters = "Z")
       /\ (c = 26 => letters = "AA")
       /\ (c = 701 => letters = "ZZ")
       /\ (c = 702 => letters = "AAA")

C9_Witness ==
  /\ IsDefined(call) /\ ValueOf(call).fn = "columnIndexToLetter"
  /\ ValueOf(call).colIndex = 702 /\ ret = Some("AAA")

(* C10: a cell gets exactly one encoding: string tag with a resolver:      *)
(* t="s" with the resolver's index and not the text; string tag without a  *)
(* resolver: t="inlineStr" with the escaped text and no index; any other   *)
(* tag: a literal <v> value with t set to the tag, except that the numeric *)
(* tag has no t attribute. Every cell carries s="0".                       *)
C10_OneEncodingPerCell ==
  (IsDefined(call) /\ ValueOf(call).fn = "serializeCell" /\ IsDefined(ret)) =>
    LET c == ValueOf(call)
        xml == ValueOf(ret)
        resolved == resolveCell(c.cell)
        shared == Contains(xml, " t=\"s\"")
        inline == Contains(xml, " t=\"inlineStr\"")
        hasValue == Contains(xml, "<v>")
        hasInlineText == Contains(xml, "<is>")
    IN /\ Contains(xml, " s=\"0\"")
       /\ ~(shared /\ inline)
       /\ hasValue # hasInlineText
       /\ (resolved.t = "s" /\ IsDefined(c.getStringIndex)) =>
            /\ shared /\ hasValue
            /\ Contains(xml, "<v>" \o ToString(c.getStringIndex[1][resolved.v]) \o "</v>")
            /\ (resolved.v # "" => ~Contains(xml, resolved.v))
            /\ (resolved.v # "" => ~Contains(xml, escapeXml(resolved.v)))
       /\ (resolved.t = "s" /\ ~IsDefined(c.getStringIndex)) =>
            /\ inline /\ hasInlineText
            /\ Contains(xml, "<is><t>" \o escapeXml(resolved.v) \o "</t></is>")
            /\ (escapeXml(resolved.v) # resolved.v => ~Contains(xml, resolved.v))
       /\ (resolved.t # "s") =>
            /\ ~shared /\ ~inline /\ hasValue
            /\ Contains(xml, "><v>" \o resolved.v \o "</v></c>")
            /\ (resolved.t = "n" <=> ~Contains(xml, " t=\""))
            /\ (resolved.t # "n" => Contains(xml, " t=\"" \o resolved.t \o "\">"))

C10_Witness ==
  /\ IsDefined(call) /\ ValueOf(call).fn = "serializeCell" /\ IsDefined(ret)
  /\ ValueOf(call).cell = StringCell("a<b")
  /\ ValueOf(call).getStringIndex = Some(ResolverB)
  /\ Contains(ValueOf(ret), " t=\"s\"><v>5</v>")

(* C11: a serialized row holds one <c> element per present cell and none   *)
(* for a hole, in ascending column order, each with r = column letter of   *)
(* its 0-based index followed by the row index; the row element carries    *)
(* the row's rowIndex, or 1 when the row has none.                         *)
CountOccurrences(str, sub) ==
  Cardinality({i \in 1..(Len(str) - Len(sub) + 1) : SubSeq(str, i, i + Len(sub) - 1) = sub})

PositionOf(str, sub) ==
  CHOOSE i \in 1..(Len(str) - Len(sub) + 1) :
    /\ SubSeq(str, i, i + Len(sub) - 1) = sub
    /\ \A j \in 1..(i - 1) : SubSeq(str, j, j + Len(sub) - 1) # sub

(* the letter of a column index below 26, read off the alphabet *)
SingleLetter(i) == SubSeq("ABCDEFGHIJKLMNOPQRSTUVWXYZ", i + 1, i + 1)

C11_OneCellPerPresentSlot ==
  (IsDefined(call) /\ ValueOf(call).fn = "serializeRow" /\ IsDefined(ret)) =>
    LET r == ValueOf(call).row
        xml == ValueOf(ret).xml
        present == PresentIndexes(r.cells)
        rowIndex == IF r.rowIndex = Undefined THEN 1 ELSE r.rowIndex[1]
        ref(i) == "<c r=\"" \o SingleLetter(i) \o ToString(rowIndex) \o "\" "
    IN /\ StartsWith(xml, "<row r=\"" \o ToString(rowIndex) \o "\" ")
       /\ CountOccurrences(xml, "<row ") = 1
       /\ CountOccurrences(xml, "<c ") = Cardinality(present)
       /\ CountOccurrences(xml, "</c>") = Cardinality(present)
       /\ \A i \in 0..(Len(r.cells) - 1) :
            CountOccurrences(xml, ref(i)) = (IF i \in present THEN 1 ELSE 0)
       /\ \A i, j \in present : i < j => PositionOf(xml, ref(i)) < PositionOf(xml, ref(j))

C11_Witness ==
  /\ IsDefined(call) /\ ValueOf(call).fn = "serializeRow" /\ IsDefined(ret)
  /\ ValueOf(call).row.rowIndex = Undefined
  /\ PresentIndexes(ValueOf(call).row.cells) = {0, 2, 3}
  /\ Len(ValueOf(call).row.cells) = 5
  /\ StartsWith(ValueOf(ret).xml, "<row r=\"1\" ")
  /\ CountOccurrences(ValueOf(ret).xml, "<c ") = 3

(* ---------------- generateColsXml ---------------- *)
ColsReturned ==
  IsDefined(call) /\ ValueOf(call).fn = "generateColsXml" /\ IsDefined(ret)

(* the declarations whose [min, max] holds the 0-based column c *)
Covering(els, c) == {i \in 1..Len(els) : els[i].min <= c + 1 /\ c + 1 <= els[i].max}

(* column c is declared once, as a single column of width w *)
DeclaredAlone(els, c, w) ==
  /\ Cardinality(Covering(els, c)) = 1
  /\ \A i \in Covering(els, c) : els[i] = [min |-> c + 1, max |-> c + 1, width |-> w]

(* C12: with an explicit width for column 2 and an auto-detect range       *)
(* [0,3], in either list order, column 2 is declared with the explicit     *)
(* width and each of the columns 0, 1, 3 with its tracked width if it has  *)
(* one, else with the default width if one is configured.                  *)
C12_ExplicitColumnBeatsAutoRange ==
  ColsReturned =>
    LET a == ValueOf(call)
        els == ValueOf(ret).colElements
        explicit == ColumnDef(2, Some(30), FALSE)
        range == RangeDef(0, 3, Undefined, TRUE)
    IN (a.columnWidths \in {<<explicit, range>>, <<range, explicit>>} /\ a.maxColumnIndex >= 2) =>
         /\ DeclaredAlone(els, 2, 30)
         /\ \A c \in {0, 1, 3} \cap (0..a.maxColumnIndex) :
              IF (c + 1) \in DOMAIN a.trackedWidths
              THEN DeclaredAlone(els, c, a.trackedWidths[c + 1])
              ELSE IF a.defaultWidth # Undefined
              THEN DeclaredAlone(els, c, a.defaultWidth[1])
              ELSE Covering(els, c) = {}

(* C13: a per-column definition with a negative columnIndex, a range with  *)
(* from > to and a range outside the observed columns add no declaration,  *)
(* so every declaration has 1 <= min <= max <= maxColumnIndex + 1.         *)
IsMalformed(def, maxCol) ==
  \/ def.columnIndex # Undefined /\ def.columnIndex[1] < 0
  \/ def.columnRange # Undefined /\ def.columnRange[1].from > def.columnRange[1].to
  \/ def.columnRange # Undefined
       /\ (def.columnRange[1].to < 0 \/ def.columnRange[1].from > maxCol)

C13_MalformedDefinitionsIgnored ==
  ColsReturned =>
    LET a == ValueOf(call)
        els == ValueOf(ret).colElements
        steps == ValueOf(ret).steps
    IN /\ \A i \in 1..Len(els) :
            1 <= els[i].min /\ els[i].min <= els[i].max
              /\ els[i].max <= a.maxColumnIndex + 1
       /\ \A k \in 1..Len(a.columnWidths) :
            (a.maxColumnIndex >= 0 /\ IsMalformed(a.columnWidths[k], a.maxColumnIndex))
              => steps[k + 1] = steps[k]

(* C14: the [min, max] intervals of the declarations are pairwise          *)
(* disjoint: no column is covered by more than one declaration.            *)
C14_DeclarationsDisjoint ==
  ColsReturned =>
    LET els == ValueOf(ret).colElements
    IN \A i, j \in 1..Len(els) :
         i < j => (els[i].max < els[j].min \/ els[j].max < els[i].min)
(* the elements of a finite set of integers in ascending order *)
Ascending(S) ==
  [i \in 1..Cardinality(S) |-> CHOOSE x \in S : Cardinality({y \in S : y < x}) = i - 1]

(* the declarations els2 has after its first Len(els1) ones *)
AddedAfter(els1, els2) == SubSeq(els2, Len(els1) + 1, Len(els2))

HasTracked(tracked, c) == (c + 1) \in DOMAIN tracked

IsColumnDefinition(def) == def.columnIndex # Undefined

(* a per-column definition yields a width: explicit, or tracked under autoDetect *)
Yields(def, tracked) ==
  def.width # Undefined \/ (def.autoDetect /\ HasTracked(tracked, def.columnIndex[1]))

YieldedWidth(def, tracked) ==
  IF def.width # Undefined THEN def.width[1] ELSE tracked[def.columnIndex[1] + 1]

(* a range definition that assigns a width to the 0-based column c *)
RangeAssigns(def, c, maxCol, tracked) ==
  /\ def.columnRange # Undefined
  /\ Max2(0, def.columnRange[1].from) <= c
  /\ c <= Min2(maxCol, def.columnRange[1].to)
  /\ IF def.autoDetect THEN HasTracked(tracked, c) ELSE def.width # Undefined

C16_RangeDefinition ==
  ColsReturned =>
    LET a == ValueOf(call)
        L == a.columnWidths
        steps == ValueOf(ret).steps
    IN \A k \in 1..Len(L) :
         (a.maxColumnIndex >= 0 /\ L[k].columnRange # Undefined) =>
           LET lo == Max2(0, L[k].columnRange[1].from)
               hi == Min2(a.maxColumnIndex, L[k].columnRange[1].to)
               before == steps[k].colElements
               after == steps[k + 1].colElements
               cols == {c \in lo..hi : Covering(before, c) = {} /\ HasTracked(a.trackedWidths, c)}
           IN /\ Len(before) <= Len(after)
              /\ SubSeq(after, 1, Len(before)) = before
              /\ AddedAfter(before, after) =
                   IF L[k].autoDetect
                   THEN [i \in 1..Cardinality(cols) |->
                           [min |-> Ascending(cols)[i] + 1, max |-> Ascending(cols)[i] + 1,
                            width |-> a.trackedWidths[Ascending(cols)[i] + 1]]]
                   ELSE IF L[k].width # Undefined /\ lo <= hi
                   THEN <<[min |-> lo + 1, max |-> hi + 1, width |-> L[k].width[1]]>>
                   ELSE <<>>

C16_Witness ==
  /\ ColsReturned
  /\ ValueOf(call).columnWidths = <<ColumnDef(2, Some(30), FALSE), RangeDef(0, 3, Some(15), TRUE)>>
  /\ ValueOf(call).maxColumnIndex = 3
  /\ DOMAIN ValueOf(call).trackedWidths = {1, 3, 4}
  /\ ValueOf(call).defaultWidth = Undefined
  /\ ValueOf(ret).colElements = <<[min |-> 3, max |-> 3, width |-> 30],
                                  [min |-> 1, max |-> 1, width |-> 5],
                                  [min |-> 4, max |-> 4, width |-> 8]>>

(* C17: after the definitions, each column 0..maxColumnIndex no            *)
(* declaration covers yet is declared, in ascending order, with its        *)
(* tracked width if it has one, else with the default width if one is      *)
(* configured, else not at all; a definition yielding no width changes     *)
(* nothing and so leaves its column to this fallback.                      *)
C17_Fallback ==
  ColsReturned =>
    LET a == ValueOf(call)
        L == a.columnWidths
        els == ValueOf(ret).colElements
        steps == ValueOf(ret).steps
    IN a.maxColumnIndex >= 0 =>
         LET afterDefs == steps[Len(L) + 1].colElements
             declared == {c \in 0..a.maxColumnIndex :
                            /\ Covering(afterDefs, c) = {}
                            /\ HasTracked(a.trackedWidths, c) \/ a.defaultWidth # Undefined}
         IN /\ SubSeq(els, 1, Len(afterDefs)) = afterDefs
            /\ AddedAfter(afterDefs, els) =
                 [i \in 1..Cardinality(declared) |->
                    [min |-> Ascending(declared)[i] + 1, max |-> Ascending(declared)[i] + 1,
                     width |-> IF HasTracked(a.trackedWidths, Ascending(declared)[i])
                               THEN a.trackedWidths[Ascending(declared)[i] + 1]
                               ELSE a.defaultWidth[1]]]
            /\ \A k \in 1..Len(L) :
                 (\/ IsColumnDefinition(L[k]) /\ ~Yields(L[k], a.trackedWidths)
                  \/ ~IsColumnDefinition(L[k]) /\ ~L[k].autoDetect /\ L[k].width = Undefined)
                   => steps[k + 1] = steps[k]

C17_Witness ==
  /\ ColsReturned
  /\ ValueOf(call).columnWidths = <<ColumnDef(2, Undefined, TRUE)>>
  /\ ValueOf(call).maxColumnIndex = 3
  /\ DOMAIN ValueOf(call).trackedWidths = {1}
  /\ ValueOf(call).defaultWidth = Some(10)
  /\ ValueOf(ret).colElements = <<[min |-> 1, max |-> 1, width |-> 5],
                                  [min |-> 2, max |-> 2, width |-> 10],
                                  [min |-> 3, max |-> 3, width |-> 10],
                                  [min |-> 4, max |-> 4, width |-> 10]>>

(* C18: with a default width, at least one observed column, no tracked     *)
(* width and no definition that assigns a width, the block is exactly one  *)
(* declaration spanning columns 1..maxColumnIndex + 1 with the default.    *)
C18_SingleDefaultDeclaration ==
  ColsReturned =>
    LET a == ValueOf(call)
        L == a.columnWidths
        els == ValueOf(ret).colElements
    IN (/\ a.maxColumnIndex >= 0
        /\ a.defaultWidth # Undefined
        /\ a.trackedWidths = <<>>
        /\ \A k \in 1..Len(L) :
             IF IsColumnDefinition(L[k])
             THEN L[k].width = Undefined \/ L[k].columnIndex[1] > a.maxColumnIndex
             ELSE \A c \in 0..a.maxColumnIndex :
                    ~RangeAssigns(L[k], c, a.maxColumnIndex, a.trackedWidths))
         => els = <<[min |-> 1, max |-> a.maxColumnIndex + 1, width |-> a.defaultWidth[1]]>>
(* ---------------- resolver calls ---------------- *)
(* the texts of the present string-tagged cells of a row, by ascending column *)
StringTexts(r) ==
  LET idx == Ascending({i \in 0..(Len(r.cells) - 1) :
                          IsPresent(r.cells[i + 1]) /\ resolveCell(r.cells[i + 1]).t = "s"})
  IN [k \in 1..Len(idx) |-> resolveCell(r.cells[idx[k] + 1]).v]

(* row-major: the rows in input order, each row by ascending column *)
RECURSIVE RowMajorTexts(_)
RowMajorTexts(rs) ==
  IF rs = <<>> THEN <<>>
  ELSE StringTexts(Head(rs)) \o RowMajorTexts(Tail(rs))

(* C19: with a resolver supplied, the resolver calls made so far are the   *)
(* texts of the present string-tagged cells of the rows serialized so far, *)
(* in row-major order, one call per such cell and none for a hole or a     *)
(* non-string cell; at the end they are those of all the rows, whatever    *)
(* the width options (so the same in both paths); without a resolver there *)
(* are none; in the slow path there are none before the source is drained. *)
C19_ResolverCalls ==
  pc # "idle" =>
    /\ resolverCalls =
         IF IsDefined(options.getStringIndex)
         THEN RowMajorTexts(SubSeq(rows, 1, Len(RowFragments(out))))
         ELSE <<>>
    /\ (pc = "done" /\ IsDefined(options.getStringIndex))
         => resolverCalls = RowMajorTexts(rows)
    /\ (WidthFeaturesRequested /\ ~drained) => resolverCalls = <<>>

C19_Witness ==
  /\ pc = "done" /\ WidthFeaturesRequested /\ drained
  /\ IsDefined(options.getStringIndex)
  /\ Len(rows) = 3
  /\ \E k \in 1..Len(rows) : \E i \in 1..Len(rows[k].cells) : ~IsPresent(rows[k].cells[i])
  /\ resolverCalls = <<"Name", "a<b", "">>
====
